---- MODULE Spec2Model ----
(***************************************************************************)
(* Model of jatts/modules/transformer/encoder.py: the Encoder class, its   *)
(* constructor (variant dispatch, kernel-length parsing, stochastic-depth  *)
(* schedule), batch forward (intermediate taps, conditioning feedback) and *)
(* forward_one_step (per-layer cache).                                     *)
(*                                                                         *)
(* Tensors are modelled with batch size 1 and a hidden dimension of 1: an  *)
(* activation tensor is a sequence of frame values in 0..MaxVal (all       *)
(* arithmetic modulo MaxVal+1), a mask is a sequence of booleans.  The     *)
(* collaborators the file imports (EncoderLayer, Conv2dSubsampling*,       *)
(* LayerNorm, PositionalEncoding, repeat) are not part of the file; they   *)
(* are modelled from their interface contracts.                            *)
(***************************************************************************)
EXTENDS Integers, Sequences, FiniteSets, TLC

VARIABLES
    args,       \* the constructor arguments of the last Encoder(...) call
    self,       \* the Encoder object (or the record of the failed construction)
    call,       \* the last batch forward call: its inputs and what it returned
    heap,       \* the list objects holding caches: list id -> sequence of entries
    streams     \* per incremental stream: cache handle, chunks fed, outputs got

vars == <<args, self, call, heap, streams>>

(***************************************************************************)
(* Bounds of the model.                                                    *)
(***************************************************************************)
MaxVal == 2          \* frame values are 0..MaxVal
MaxBlocks == 3       \* num_blocks of the encoders that are run
CtorMaxBlocks == 6   \* num_blocks of the encoders that are only constructed
MaxExtra == 4        \* input frames beyond the embedder's minimum
MaxCalls == 2        \* forward_one_step calls per stream
MantBits == 4        \* bits of the floating-point significand
RateDen == 10        \* base rates are k/RateDen, k in 0..RateDen

Modulus == MaxVal + 1

Streams == {"A", "B"}

(***************************************************************************)
(* Small helpers.                                                          *)
(***************************************************************************)
RECURSIVE Pow2(_)
Pow2(n) == IF n <= 0 THEN 1 ELSE 2 * Pow2(n - 1)

RECURSIVE SumSeq(_)
SumSeq(s) == IF s = <<>> THEN 0 ELSE Head(s) + SumSeq(Tail(s))

Range(s) == {s[i] : i \in DOMAIN s}

Last(s) == s[Len(s)]

(***************************************************************************)
(* Python floats, with a significand of MantBits bits and round-to-nearest *)
(* ties-to-even.  A float is <<m, e>>, standing for m * 2^e, with m = 0 or *)
(* 2^(MantBits-1) <= m < 2^MantBits.                                       *)
(***************************************************************************)
RECURSIVE Normalize(_, _, _)
Normalize(num, den, e) ==
    IF num < den * Pow2(MantBits - 1) THEN Normalize(2 * num, den, e - 1)
    ELSE IF num >= den * Pow2(MantBits) THEN Normalize(num, 2 * den, e + 1)
    ELSE LET q == num \div den
             r == num % den
             up == (2 * r > den) \/ (2 * r = den /\ q % 2 = 1)
             q2 == IF up THEN q + 1 ELSE q
         IN  IF q2 = Pow2(MantBits) THEN <<Pow2(MantBits - 1), e + 1>>
             ELSE <<q2, e>>

\* the float nearest to the rational num/den (num >= 0, den > 0)
RoundRat(num, den) == IF num = 0 THEN <<0, 0>> ELSE Normalize(num, den, 0)

\* the exact rational value <<num, den>> of a float
FNum(a) == IF a[2] >= 0 THEN a[1] * Pow2(a[2]) ELSE a[1]
FDen(a) == IF a[2] >= 0 THEN 1 ELSE Pow2(-a[2])

FromInt(n) == RoundRat(n, 1)
FMul(a, b) == RoundRat(FNum(a) * FNum(b), FDen(a) * FDen(b))
FDiv(a, b) == RoundRat(FNum(a) * FDen(b), FDen(a) * FNum(b))
FLess(a, b) == FNum(a) * FDen(b) < FNum(b) * FDen(a)
FLeq(a, b) == FNum(a) * FDen(b) <= FNum(b) * FDen(a)
FZero == <<0, 0>>

(***************************************************************************)
(* Strings that the constructor takes apart are sequences of characters.   *)
(***************************************************************************)
Digits == <<"0", "1", "2", "3", "4", "5", "6", "7", "8", "9">>

IsDigit(c) == \E i \in DOMAIN Digits : Digits[i] = c

DigitVal(c) == (CHOOSE i \in DOMAIN Digits : Digits[i] = c) - 1

\* str.split("_"): the pieces between underscores, empty pieces kept
RECURSIVE SplitFrom(_, _, _, _)
SplitFrom(s, i, cur, acc) ==
    IF i > Len(s) THEN Append(acc, cur)
    ELSE IF s[i] = "_" THEN SplitFrom(s, i + 1, <<>>, Append(acc, cur))
    ELSE SplitFrom(s, i + 1, Append(cur, s[i]), acc)

Split(s) == SplitFrom(s, 1, <<>>, <<>>)

\* int(token) for a token of decimal digits; -1 stands for ValueError
RECURSIVE DigitsValue(_, _)
DigitsValue(tok, acc) ==
    IF tok = <<>> THEN acc
    ELSE DigitsValue(Tail(tok), 10 * acc + DigitVal(Head(tok)))

ParseInt(tok) ==
    IF tok = <<>> \/ \E i \in DOMAIN tok : ~IsDigit(tok[i]) THEN -1
    ELSE DigitsValue(tok, 0)

(***************************************************************************)
(* Module namespace: the names bound by the import statements of the file. *)
(***************************************************************************)
Imported ==
    {"logging", "torch", "PositionalEncoding", "MultiHeadedAttention",
     "EncoderLayer", "LayerNorm", "Conv1dLinear", "MultiLayeredConv1d",
     "PositionwiseFeedForward", "repeat", "Conv2dSubsampling",
     "Conv2dSubsampling6", "Conv2dSubsampling8"}

\* evaluating a global name: "ok" when bound, NameError otherwise
NameRef(name) == IF name \in Imported THEN "ok" ELSE "NameError"

(***************************************************************************)
(* Constructor arguments.  input_layer "module" stands for a               *)
(* torch.nn.Module instance and "None" for None; intermediate_layers is    *)
(* [isNone, list]; ctc_softmax is TRUE when a module is given.             *)
(***************************************************************************)
NoTaps == [isNone |-> TRUE, list |-> <<>>]

Taps(l) == [isNone |-> FALSE, list |-> l]

DefaultArgs ==
    [input_layer |-> "conv2d",
     selfattention_layer_type |-> "selfattn",
     positionwise_layer_type |-> "linear",
     num_blocks |-> 6,
     conv_kernel_length |-> <<"1", "1">>,
     stochastic_depth_rate |-> FZero,
     normalize_before |-> TRUE,
     intermediate_layers |-> NoTaps,
     ctc_softmax |-> FALSE]

\* the object before Encoder(...) has been called
NoEncoder ==
    [status |-> "unbuilt", message |-> <<>>, embed |-> "unset",
     input_layer |-> "unset", conv_subsampling_factor |-> 1,
     normalize_before |-> FALSE, encoders |-> <<>>, after_norm |-> FALSE,
     intermediate_layers |-> NoTaps, use_conditioning |-> FALSE]

\* __init__ left by an exception: the fields assigned so far, no layer built
Raised(obj, status, message) ==
    [obj EXCEPT !.status = status, !.message = message]

(***************************************************************************)
(* Encoder.__init__, lines 96-140: the input layer.                        *)
(***************************************************************************)
EmbedDispatch(input_layer) ==
    LET set(cls, factor) ==
            [NoEncoder EXCEPT !.status = "ok", !.embed = cls,
                              !.input_layer = input_layer,
                              !.conv_subsampling_factor = factor]
    IN  CASE input_layer = "linear" -> set("Sequential", 1)
          [] input_layer = "conv2d" -> set("Conv2dSubsampling", 4)
          [] input_layer = "conv2d-scaled-pos-enc" -> set("Conv2dSubsampling", 4)
          [] input_layer = "conv2d6" -> set("Conv2dSubsampling6", 6)
          [] input_layer = "conv2d8" -> set("Conv2dSubsampling8", 8)
          [] input_layer = "vgg2l" ->
                IF NameRef("VGG2L") = "ok" THEN set("VGG2L", 4)
                ELSE Raised(NoEncoder, NameRef("VGG2L"), <<"VGG2L">>)
          [] input_layer = "embed" -> set("Sequential", 1)
          [] input_layer = "module" -> set("Sequential", 1)
          [] input_layer = "None" -> set("Sequential", 1)
          [] OTHER -> Raised(NoEncoder, "ValueError",
                             <<"unknown input_layer: ", input_layer>>)

(***************************************************************************)
(* Encoder.get_positionwise_layer.                                         *)
(***************************************************************************)
get_positionwise_layer(positionwise_layer_type) ==
    CASE positionwise_layer_type = "linear" ->
            [status |-> NameRef("PositionwiseFeedForward"), message |-> <<>>,
             layer |-> "PositionwiseFeedForward"]
      [] positionwise_layer_type = "conv1d" ->
            [status |-> NameRef("MultiLayeredConv1d"), message |-> <<>>,
             layer |-> "MultiLayeredConv1d"]
      [] positionwise_layer_type = "conv1d-linear" ->
            [status |-> NameRef("Conv1dLinear"), message |-> <<>>,
             layer |-> "Conv1dLinear"]
      [] OTHER ->
            [status |-> "NotImplementedError",
             message |-> <<"Support only linear or conv1d.">>,
             layer |-> "unset"]

(***************************************************************************)
(* Encoder.__init__, lines 149-225: the self-attention layer and its       *)
(* per-layer arguments.  Of an argument tuple only the kernel length is    *)
(* kept (0 for MultiHeadedAttention, which takes none).                    *)
(***************************************************************************)
\* [int(conv_kernel_length.split("_")[lnum]) for lnum in range(num_blocks)]
RECURSIVE KernelArgs(_, _, _, _)
KernelArgs(conv_kernel_length, num_blocks, lnum, acc) ==
    IF lnum >= num_blocks THEN [status |-> "ok", list |-> acc]
    ELSE LET toks == Split(conv_kernel_length)
         IN  IF lnum + 1 > Len(toks)
             THEN [status |-> "IndexError", list |-> acc]
             ELSE IF ParseInt(toks[lnum + 1]) < 0
             THEN [status |-> "ValueError", list |-> acc]
             ELSE KernelArgs(conv_kernel_length, num_blocks, lnum + 1,
                             Append(acc, ParseInt(toks[lnum + 1])))

ConvAttention(cls, a) ==
    IF NameRef(cls) # "ok"
    THEN [status |-> NameRef(cls), message |-> <<cls>>, layer |-> "unset",
          layer_args |-> <<>>]
    ELSE LET k == KernelArgs(a.conv_kernel_length, a.num_blocks, 0, <<>>)
         IN  [status |-> k.status, message |-> <<>>, layer |-> cls,
              layer_args |-> k.list]

SelfAttnDispatch(a) ==
    LET t == a.selfattention_layer_type
    IN  CASE t \in {"selfattn", "rel_selfattn", "legacy_rel_selfattn"} ->
                [status |-> NameRef("MultiHeadedAttention"), message |-> <<>>,
                 layer |-> "MultiHeadedAttention",
                 layer_args |-> [lnum \in 1..a.num_blocks |-> 0]]
          [] t = "lightconv" -> ConvAttention("LightweightConvolution", a)
          [] t = "lightconv2d" -> ConvAttention("LightweightConvolution2D", a)
          [] t = "dynamicconv" -> ConvAttention("DynamicConvolution", a)
          [] t = "dynamicconv2d" -> ConvAttention("DynamicConvolution2D", a)
          [] OTHER -> [status |-> "NotImplementedError", message |-> <<t>>,
                       layer |-> "unset", layer_args |-> <<>>]

(***************************************************************************)
(* Encoder.__init__, lines 227-238: the layers.  Layer lnum (0-based) gets *)
(* stochastic_depth_rate * float(1 + lnum) / num_blocks.                   *)
(***************************************************************************)
SkipProbZeroBased(stochastic_depth_rate, lnum, num_blocks) ==
    FDiv(FMul(stochastic_depth_rate, FromInt(lnum)), FromInt(num_blocks))

SkipProb(stochastic_depth_rate, lnum, num_blocks) ==
    FDiv(FMul(stochastic_depth_rate, FromInt(1 + lnum)), FromInt(num_blocks))

BuildLayers(a, sa, pw) ==
    [i \in 1..a.num_blocks |->
        [lnum |-> i - 1,
         self_attn |-> sa.layer,
         kernel |-> sa.layer_args[i],
         feed_forward |-> pw.layer,
         stochastic_depth_rate |->
             SkipProb(a.stochastic_depth_rate, i - 1, a.num_blocks)]]

(***************************************************************************)
(* Encoder.__init__ as a whole: the object it leaves, or the fields it had *)
(* assigned when it raised.                                                *)
(***************************************************************************)
Encoder_init(a) ==
    LET emb == EmbedDispatch(a.input_layer)
    IN  IF emb.status # "ok" THEN emb
        ELSE
        LET obj1 == [emb EXCEPT !.normalize_before = a.normalize_before]
            pw == get_positionwise_layer(a.positionwise_layer_type)
        IN  IF pw.status # "ok" THEN Raised(obj1, pw.status, pw.message)
            ELSE
            LET sa == SelfAttnDispatch(a)
            IN  IF sa.status # "ok" THEN Raised(obj1, sa.status, sa.message)
                ELSE [obj1 EXCEPT
                        !.encoders = BuildLayers(a, sa, pw),
                        !.after_norm = a.normalize_before,
                        !.intermediate_layers = a.intermediate_layers,
                        !.use_conditioning = a.ctc_softmax]

(***************************************************************************)
(* Collaborators, from their interfaces.  A tensor is a sequence of frame  *)
(* values; the functions below stand for the numeric kernels, which are    *)
(* fixed, deterministic (inference mode) and distinct per layer.           *)
(***************************************************************************)
TensorAdd(x, y) == [t \in 1..Len(x) |-> (x[t] + y[t]) % Modulus]

\* PositionalEncoding: position t is added to frame t
PositionalEncoding(x, scale) ==
    [t \in 1..Len(x) |-> (x[t] + scale * t) % Modulus]

\* LayerNorm (self.after_norm): a shape-preserving, frame-wise map
LayerNorm(x) == [t \in 1..Len(x) |-> (2 * x[t] + 1) % Modulus]

\* the ctc_softmax module given to the constructor: frame-wise
ctc_softmax(x) == [t \in 1..Len(x) |-> (x[t] + 1) % Modulus]

\* self.conditioning_layer, a torch.nn.Linear back to the hidden dimension
conditioning_layer(x) == [t \in 1..Len(x) |-> (2 * x[t] + 1) % Modulus]

\* key position s is visible under the mask
Visible(mask, s) == IF s \in DOMAIN mask THEN mask[s] ELSE TRUE

\* self-attention context: every position sees all visible positions
Attend(x, mask) ==
    SumSeq([s \in 1..Len(x) |-> IF Visible(mask, s) THEN x[s] ELSE 0])

LayerWeight(layer) == 1 + (layer.lnum % MaxVal)

LayerBias(layer) == layer.lnum % Modulus

NoCache == [isNone |-> TRUE, val |-> <<>>]

Entry(x) == [isNone |-> FALSE, val |-> x]

\* EncoderLayer.forward(x, mask, cache=None) -> (x, mask): residual block.
\* Without a cache every frame is recomputed and the time length is kept;
\* with one, only the last frame is computed and appended to the cache.
EncoderLayer(layer, x, mask, cache) ==
    LET ctx == LayerWeight(layer) * Attend(x, mask) + LayerBias(layer)
    IN  IF cache.isNone
        THEN [xs |-> [t \in 1..Len(x) |-> (x[t] + ctx) % Modulus],
              masks |-> mask]
        ELSE [xs |-> Append(cache.val, (Last(x) + ctx) % Modulus),
              masks |-> mask]

\* x_mask[:, :, :-drop:step]
Stride(m, drop, step) ==
    LET n == Len(m) - drop
        cnt == IF n <= 0 THEN 0 ELSE (n + step - 1) \div step
    IN  [k \in 1..cnt |-> m[(k - 1) * step + 1]]

\* frames an embedder needs to produce one output frame
MinFrames(embed) ==
    CASE embed = "Conv2dSubsampling" -> 7
      [] embed = "Conv2dSubsampling6" -> 11
      [] embed = "Conv2dSubsampling8" -> 15
      [] OTHER -> 1

\* output time length of the convolutions
ConvOutLen(embed, T) ==
    CASE embed = "Conv2dSubsampling" -> (((T - 1) \div 2) - 1) \div 2
      [] embed = "Conv2dSubsampling6" -> (((T - 1) \div 2) - 2) \div 3
      [] embed = "Conv2dSubsampling8" ->
            ((((T - 1) \div 2) - 1) \div 2 - 1) \div 2

ConvMask(embed, m) ==
    CASE embed = "Conv2dSubsampling" -> Stride(Stride(m, 2, 2), 2, 2)
      [] embed = "Conv2dSubsampling6" -> Stride(Stride(m, 2, 2), 4, 3)
      [] embed = "Conv2dSubsampling8" ->
            Stride(Stride(Stride(m, 2, 2), 2, 2), 2, 2)

PosScale(input_layer) == IF input_layer = "conv2d-scaled-pos-enc" THEN 2 ELSE 1

\* Conv2dSubsampling*.forward(x, x_mask) -> (x, x_mask): output frame j is
\* computed from the input frames of its receptive field
ConvEmbed(obj, xs, masks) ==
    LET T == Len(xs)
        f == obj.conv_subsampling_factor
        w == MinFrames(obj.embed)
        n == ConvOutLen(obj.embed, T)
        conv == [j \in 1..n |->
                    SumSeq([i \in 1..w |-> xs[f * (j - 1) + i]]) % Modulus]
    IN  IF T < w
        THEN [raised |-> "RuntimeError", xs |-> <<>>, masks |-> masks]
        ELSE [raised |-> "ok",
              xs |-> PositionalEncoding(conv, PosScale(obj.input_layer)),
              masks |-> ConvMask(obj.embed, masks)]

\* torch.nn.Sequential(..., pos_enc_class(...)).forward(x) -> x
SeqEmbed(obj, xs) ==
    LET proj(v) == CASE obj.input_layer = "linear" -> (2 * v + 1) % Modulus
                     [] obj.input_layer = "embed" -> (v + 2) % Modulus
                     [] obj.input_layer = "module" -> (v * v) % Modulus
                     [] OTHER -> v
    IN  PositionalEncoding([t \in 1..Len(xs) |-> proj(xs[t])], 1)

IsConv(embed) ==
    embed \in {"Conv2dSubsampling", "Conv2dSubsampling6", "Conv2dSubsampling8"}

\* self.embed(xs, masks)
EmbedCall2(obj, xs, masks) ==
    LET r == ConvEmbed(obj, xs, masks)
    IN  [raised |-> r.raised, xs |-> r.xs, masks |-> r.masks,
         mask_given |-> TRUE]

\* self.embed(xs): a Conv2dSubsampling* called without its x_mask argument
\* raises TypeError
EmbedCall1(obj, xs, masks) ==
    IF IsConv(obj.embed)
    THEN [raised |-> "TypeError", xs |-> <<>>, masks |-> masks,
          mask_given |-> FALSE]
    ELSE [raised |-> "ok", xs |-> SeqEmbed(obj, xs), masks |-> masks,
          mask_given |-> FALSE]

\* self.encoders(xs, masks) restricted to the first k layers (repeat /
\* MultiSequential: the layers in order)
RECURSIVE RunLayers(_, _, _, _)
RunLayers(layers, k, xs, masks) ==
    IF k = 0 THEN [xs |-> xs, masks |-> masks]
    ELSE LET p == RunLayers(layers, k - 1, xs, masks)
         IN  EncoderLayer(layers[k], p.xs, p.masks, NoCache)

Lens(r) == <<Len(r.xs), Len(r.masks)>>

(***************************************************************************)
(* Encoder.forward.  What a call returns is a record: raised ("ok" when it *)
(* returned), the returned values, how many values were returned, and the  *)
(* values the local variables took on the way (stages: the time lengths of *)
(* xs and masks after the embedder and after each layer; layer_out and     *)
(* live: xs as each layer returned it and as the next layer receives it).  *)
(***************************************************************************)
Min(a, b) == IF a <= b THEN a ELSE b

\* lines 313-321, at a tap: the captured copy and the live activations
TapStepLeaksCopy(obj, xs) ==
    LET encoder_output == IF obj.normalize_before THEN LayerNorm(xs) ELSE xs
    IN  [encoder_output |-> encoder_output,
         xs |-> IF obj.use_conditioning
                THEN TensorAdd(encoder_output,
                               conditioning_layer(ctc_softmax(encoder_output)))
                ELSE encoder_output]

TapStepNoNorm(obj, xs) ==
    [encoder_output |-> xs,
     xs |-> IF obj.use_conditioning
            THEN TensorAdd(xs, conditioning_layer(ctc_softmax(xs)))
            ELSE xs]

TapStepCapturesAfter(obj, xs) ==
    LET encoder_output == IF obj.normalize_before THEN LayerNorm(xs) ELSE xs
        live == IF obj.use_conditioning
                THEN TensorAdd(xs, conditioning_layer(ctc_softmax(encoder_output)))
                ELSE xs
    IN  [encoder_output |-> IF obj.use_conditioning THEN live ELSE encoder_output,
         xs |-> live]

TapStep(obj, xs) ==
    LET encoder_output == IF obj.normalize_before THEN LayerNorm(xs) ELSE xs
    IN  [encoder_output |-> encoder_output,
         xs |-> IF obj.use_conditioning
                THEN TensorAdd(xs, conditioning_layer(ctc_softmax(encoder_output)))
                ELSE xs]

\* lines 306-321: the loop over the layers, from layer_idx on
RECURSIVE TapLoop(_, _, _)
TapLoop(obj, layer_idx, st) ==
    IF layer_idx >= Len(obj.encoders) THEN st
    ELSE
    LET y == EncoderLayer(obj.encoders[layer_idx + 1], st.xs, st.masks, NoCache)
        tap == (~obj.intermediate_layers.isNone)
               /\ (layer_idx + 1) \in Range(obj.intermediate_layers.list)
        t == TapStep(obj, y.xs)
    IN  TapLoop(obj, layer_idx + 1,
            [xs |-> IF tap THEN t.xs ELSE y.xs,
             masks |-> y.masks,
             intermediate_outputs |->
                 IF tap THEN Append(st.intermediate_outputs, t.encoder_output)
                 ELSE st.intermediate_outputs,
             stages |-> Append(st.stages, Lens(y)),
             layer_out |-> Append(st.layer_out, y.xs),
             live |-> Append(st.live, IF tap THEN t.xs ELSE y.xs)])

\* lines 294-300: the embedder is handed the mask when it subsamples
ForwardEmbed(obj, xs, masks) ==
    IF IsConv(obj.embed) THEN EmbedCall2(obj, xs, masks)
                         ELSE EmbedCall1(obj, xs, masks)

\* lines 323-324
ForwardFinalNorm(obj, xs) == IF obj.normalize_before THEN LayerNorm(xs) ELSE xs

forward(obj, xs, masks) ==
    LET e == ForwardEmbed(obj, xs, masks)
        N == Len(obj.encoders)
    IN  IF e.raised # "ok"
        THEN [raised |-> e.raised, xs |-> <<>>, masks |-> masks, arity |-> 0,
              intermediate_outputs |-> <<>>, mask_given |-> e.mask_given,
              stages |-> <<>>, layer_out |-> <<>>, live |-> <<>>, self |-> obj]
        ELSE IF obj.intermediate_layers.isNone
        THEN LET r == RunLayers(obj.encoders, N, e.xs, e.masks)
                 pre == [k \in 1..N |-> RunLayers(obj.encoders, k, e.xs, e.masks)]
             IN  [raised |-> "ok", xs |-> ForwardFinalNorm(obj, r.xs),
                  masks |-> r.masks, arity |-> 2,
                  intermediate_outputs |-> <<>>, mask_given |-> e.mask_given,
                  stages |-> <<Lens(e)>> \o [k \in 1..N |-> Lens(pre[k])],
                  layer_out |-> [k \in 1..N |-> pre[k].xs],
                  live |-> [k \in 1..N |-> pre[k].xs], self |-> obj]
        ELSE LET st == TapLoop(obj, 0,
                          [xs |-> e.xs, masks |-> e.masks,
                           intermediate_outputs |-> <<>>,
                           stages |-> <<Lens(e)>>,
                           layer_out |-> <<>>, live |-> <<>>])
             IN  [raised |-> "ok", xs |-> ForwardFinalNorm(obj, st.xs),
                  masks |-> st.masks, arity |-> 3,
                  intermediate_outputs |-> st.intermediate_outputs,
                  mask_given |-> e.mask_given, stages |-> st.stages,
                  layer_out |-> st.layer_out, live |-> st.live, self |-> obj]

(***************************************************************************)
(* Encoder.forward_one_step.  cache is a handle: 0 for None, else the id   *)
(* of a list object of the heap hp.  The call returns the handle of the    *)
(* list it built and the heap as it leaves it.                             *)
(***************************************************************************)
\* lines 350-353, 356: the list the entries are collected in
StoreInPlace(hp, cache, entries) ==
    IF cache = 0
    THEN [heap |-> Append(hp, entries), new_cache |-> Len(hp) + 1]
    ELSE [heap |-> [hp EXCEPT ![cache] = entries], new_cache |-> cache]

StoreNewCache(hp, cache, entries) ==
    [heap |-> Append(hp, entries), new_cache |-> Len(hp) + 1]

\* lines 344-347
StepEmbed(obj, xs, masks) ==
    IF obj.embed = "Conv2dSubsampling" THEN EmbedCall2(obj, xs, masks)
                                       ELSE EmbedCall1(obj, xs, masks)

\* lines 354-355
StepFinalNormSkipped(obj, xs) == xs

StepFinalNorm(obj, xs) == IF obj.normalize_before THEN LayerNorm(xs) ELSE xs

\* lines 351-353: for c, e in zip(cache, self.encoders), from pair i on
RECURSIVE StepLoop(_, _, _, _)
StepLoop(obj, clist, i, st) ==
    IF i >= Min(Len(clist), Len(obj.encoders)) THEN st
    ELSE
    LET y == EncoderLayer(obj.encoders[i + 1], st.xs, st.masks, clist[i + 1])
    IN  StepLoop(obj, clist, i + 1,
            [xs |-> y.xs, masks |-> y.masks,
             new_cache |-> Append(st.new_cache, Entry(y.xs)),
             stages |-> Append(st.stages, Lens(y)),
             layers_run |-> Append(st.layers_run, obj.encoders[i + 1].lnum)])

forward_one_step(obj, xs, masks, cache, hp) ==
    LET e == StepEmbed(obj, xs, masks)
    IN  IF e.raised # "ok"
        THEN [raised |-> e.raised, xs |-> <<>>, masks |-> masks,
              new_cache |-> 0, heap |-> hp, mask_given |-> e.mask_given,
              stages |-> <<>>, layers_run |-> <<>>, self |-> obj]
        ELSE
        LET clist == IF cache = 0
                     THEN [i \in 1..Len(obj.encoders) |-> NoCache]
                     ELSE hp[cache]
            st == StepLoop(obj, clist, 0,
                      [xs |-> e.xs, masks |-> e.masks, new_cache |-> <<>>,
                       stages |-> <<Lens(e)>>, layers_run |-> <<>>])
            store == StoreNewCache(hp, cache, st.new_cache)
        IN  [raised |-> "ok", xs |-> StepFinalNorm(obj, st.xs),
             masks |-> st.masks, new_cache |-> store.new_cache,
             heap |-> store.heap, mask_given |-> e.mask_given,
             stages |-> st.stages, layers_run |-> st.layers_run, self |-> obj]

(***************************************************************************)
(* Inputs.                                                                 *)
(***************************************************************************)
\* an input of len frames, frame i holding (v + i) mod Modulus
Frames(len, v) == [i \in 1..len |-> (v + i) % Modulus]

\* a mask of len positions whose last pad positions are padding
Mask(len, pad) == [i \in 1..len |-> i <= len - pad]

\* decimal digits of n > 0
RECURSIVE IntStr(_)
IntStr(n) == IF n < 10 THEN <<Digits[n + 1]>>
             ELSE Append(IntStr(n \div 10), Digits[(n % 10) + 1])

\* "3_5_7_...": k odd kernel lengths joined by underscores
RECURSIVE KernelString(_)
KernelString(k) ==
    IF k = 1 THEN IntStr(3)
    ELSE KernelString(k - 1) \o <<"_">> \o IntStr(2 * k + 1)

KernelStrings ==
    {KernelString(k) : k \in 1..(CtorMaxBlocks + 1)}
        \cup {<<"1", "1">>, <<"3", "_">>, <<"3", "_", "_", "5">>}

InputLayerValues ==
    {"linear", "conv2d", "conv2d-scaled-pos-enc", "conv2d6", "conv2d8",
     "vgg2l", "embed", "module", "None", "bogus"}

SelfAttentionValues ==
    {"selfattn", "rel_selfattn", "legacy_rel_selfattn", "lightconv",
     "lightconv2d", "dynamicconv", "dynamicconv2d", "bogus"}

PositionwiseValues == {"linear", "conv1d", "conv1d-linear", "bogus"}

\* the input layers with which construction succeeds
RunnableInputLayers ==
    {"linear", "conv2d", "conv2d-scaled-pos-enc", "conv2d6", "conv2d8",
     "embed", "module", "None"}

Rates == {RoundRat(k, RateDen) : k \in 0..RateDen}

\* lists of at most two tap indices, also repeated or outside 1..N
TapLists(N) ==
    {<<>>} \cup {<<i>> : i \in 0..(N + 1)}
           \cup {<<i, j>> : i \in 0..(N + 1), j \in 0..(N + 1)}

\* arguments that vary the variant tags and the kernel-length string
TagArgs ==
    {[DefaultArgs EXCEPT !.input_layer = il,
                         !.selfattention_layer_type = sa,
                         !.positionwise_layer_type = pw,
                         !.num_blocks = n,
                         !.conv_kernel_length = ks] :
        il \in InputLayerValues, sa \in SelfAttentionValues,
        pw \in PositionwiseValues, n \in 1..CtorMaxBlocks,
        ks \in KernelStrings}

\* arguments that vary the stochastic-depth base rate
RateArgs ==
    {[DefaultArgs EXCEPT !.num_blocks = n, !.stochastic_depth_rate = r] :
        n \in 1..CtorMaxBlocks, r \in Rates}

\* arguments of the encoders batch forward is run on
ForwardArgs ==
    {[DefaultArgs EXCEPT !.input_layer = il, !.num_blocks = n,
                         !.normalize_before = nb,
                         !.intermediate_layers = taps,
                         !.ctc_softmax = c] :
        il \in RunnableInputLayers, n \in 1..MaxBlocks, nb \in BOOLEAN,
        taps \in {NoTaps} \cup {Taps(l) : l \in TapLists(MaxBlocks)},
        c \in BOOLEAN}

\* arguments of the encoders forward_one_step is run on
StepArgs ==
    {[DefaultArgs EXCEPT !.input_layer = il, !.num_blocks = n,
                         !.normalize_before = nb] :
        il \in {"conv2d", "embed"}, n \in {MaxBlocks}, nb \in BOOLEAN}

\* arguments of the encoders stepped with a cache the caller supplies
CacheArgs ==
    {[DefaultArgs EXCEPT !.input_layer = il, !.num_blocks = n,
                         !.normalize_before = nb] :
        il \in RunnableInputLayers, n \in 1..MaxBlocks, nb \in BOOLEAN}

\* input lengths: one frame short of the embedder's minimum, and from the
\* minimum up
InputLens(obj) ==
    {n \in {MinFrames(obj.embed) + e : e \in (-1)..MaxExtra} : n >= 1}

ChunkLens(obj) ==
    {n \in {MinFrames(obj.embed) + e : e \in {-1, 0, MaxExtra}} : n >= 1}

(***************************************************************************)
(* State.                                                                  *)
(***************************************************************************)
NoCall ==
    [status |-> "none", xs |-> <<>>, masks |-> <<>>,
     ret |-> [raised |-> "none", xs |-> <<>>, masks |-> <<>>, arity |-> 0,
              intermediate_outputs |-> <<>>, mask_given |-> FALSE,
              stages |-> <<>>, layer_out |-> <<>>, live |-> <<>>,
              self |-> NoEncoder]]

NoStream ==
    [cache |-> 0, supplied |-> FALSE, initial |-> <<>>, calls |-> 0,
     status |-> "idle", chunks |-> <<>>, fed |-> <<>>, outs |-> <<>>,
     tails |-> <<>>, given |-> 0,
     ret |-> [raised |-> "none", xs |-> <<>>, masks |-> <<>>,
              new_cache |-> 0, mask_given |-> FALSE, stages |-> <<>>,
              layers_run |-> <<>>]]

Init ==
    /\ args = DefaultArgs
    /\ self = NoEncoder
    /\ call = NoCall
    /\ heap = <<>>
    /\ streams = [s \in Streams |-> NoStream]

(***************************************************************************)
(* Actions.                                                                *)
(***************************************************************************)
\* Encoder(**a), for a drawn from A
Construct(A) ==
    /\ self.status = "unbuilt"
    /\ \E a \in A :
        /\ args' = a
        /\ self' = Encoder_init(a)
    /\ UNCHANGED <<call, heap, streams>>

\* encoder(xs, masks): one batch call, its input drawn from the lengths
\* lens, the first-frame values vals and the padding widths pads
ForwardOn(lens, vals, pads) ==
    /\ self.status = "ok"
    /\ call.status = "none"
    /\ \E len \in lens, v \in vals, pad \in pads :
        /\ pad < len
        /\ LET r == forward(self, Frames(len, v), Mask(len, pad))
           IN  /\ call' = [status |-> IF r.raised = "ok" THEN "returned"
                                      ELSE "raised",
                           xs |-> Frames(len, v), masks |-> Mask(len, pad),
                           ret |-> r]
               /\ self' = r.self
    /\ UNCHANGED <<args, heap, streams>>

Forward == ForwardOn(InputLens(self), 0..MaxVal, {0, 1})

\* a batch call on an input such as the streams are fed
ForwardChunk == ForwardOn(ChunkLens(self), {0}, {0})

\* the caller of stream s makes a cache list of its own before its first
\* call: k entries, all None or all one-frame tensors
SupplyCache(s) ==
    /\ self.status = "ok"
    /\ streams[s].calls = 0
    /\ ~streams[s].supplied
    /\ \E k \in 0..(Len(self.encoders) + 1), none \in BOOLEAN :
        LET list == [i \in 1..k |-> IF none THEN NoCache ELSE Entry(<<0>>)]
        IN  /\ heap' = Append(heap, list)
            /\ streams' = [streams EXCEPT ![s].cache = Len(heap) + 1,
                                          ![s].supplied = TRUE,
                                          ![s].initial = list]
    /\ UNCHANGED <<args, self, call>>

\* encoder.forward_one_step(chunk, mask, cache) on stream s, the cache being
\* the one the stream's previous call returned (or the supplied one, or None)
Step(s) ==
    /\ self.status = "ok"
    /\ streams[s].status # "raised"
    /\ streams[s].calls < MaxCalls
    /\ \E len \in ChunkLens(self) :
        LET xs == Frames(len, streams[s].calls)
            r == forward_one_step(self, xs, Mask(len, 0), streams[s].cache, heap)
            \* frames of history the given cache holds
            hist == IF streams[s].cache = 0 THEN 0
                    ELSE IF heap[streams[s].cache] = <<>> THEN 0
                    ELSE Len(Last(heap[streams[s].cache]).val)
        IN  /\ heap' = r.heap
            /\ self' = r.self
            /\ streams' = [streams EXCEPT ![s] =
                  [cache |-> IF r.raised = "ok" THEN r.new_cache ELSE @.cache,
                   supplied |-> @.supplied,
                   initial |-> @.initial,
                   calls |-> @.calls + 1,
                   status |-> IF r.raised = "ok" THEN "ok" ELSE "raised",
                   chunks |-> Append(@.chunks, xs),
                   fed |-> @.fed \o xs,
                   outs |-> IF r.raised = "ok" THEN @.outs \o r.xs ELSE @.outs,
                   tails |-> IF r.raised = "ok"
                             THEN @.tails \o SubSeq(r.xs, hist + 1, Len(r.xs))
                             ELSE @.tails,
                   given |-> @.cache,
                   ret |-> [raised |-> r.raised, xs |-> r.xs,
                            masks |-> r.masks, new_cache |-> r.new_cache,
                            mask_given |-> r.mask_given, stages |-> r.stages,
                            layers_run |-> r.layers_run]]]
    /\ UNCHANGED <<args, call>>

(***************************************************************************)
(* Specifications: construction alone, batch forward, incremental steps.   *)
(***************************************************************************)
ConstructTags == Construct(TagArgs)

ConstructRates == Construct(RateArgs)

ConstructForward == Construct(ForwardArgs)

ConstructStep == Construct(StepArgs)

NextInit == ConstructTags \/ ConstructRates

SpecInit == Init /\ [][NextInit]_vars

NextForward == ConstructForward \/ Forward

SpecForward == Init /\ [][NextForward]_vars

NextStep == ConstructStep \/ ForwardChunk \/ (\E s \in Streams : Step(s))

SpecStep == Init /\ [][NextStep]_vars

ConstructCache == Construct(CacheArgs)

NextCache == ConstructCache \/ SupplyCache("A") \/ Step("A")

SpecCache == Init /\ [][NextCache]_vars

Next == NextInit \/ NextForward \/ NextStep \/ NextCache

Spec == Init /\ [][Next]_vars

(***************************************************************************)
(* Properties of construction (SpecInit).                                  *)
(***************************************************************************)
Constructed == self.status # "unbuilt"

Built == self.status = "ok"

\* the option values the interface enumerates
EnumeratedInputLayers ==
    {"linear", "conv2d", "conv2d-scaled-pos-enc", "conv2d6", "conv2d8",
     "embed", "module", "None"}

EnumeratedSelfAttention ==
    {"selfattn", "rel_selfattn", "legacy_rel_selfattn", "lightconv",
     "lightconv2d", "dynamicconv", "dynamicconv2d"}

ConvolutionalSelfAttention ==
    {"lightconv", "lightconv2d", "dynamicconv", "dynamicconv2d"}

EnumeratedPositionwise == {"linear", "conv1d", "conv1d-linear"}

AllEnumerated(a) ==
    /\ a.input_layer \in EnumeratedInputLayers
    /\ a.selfattention_layer_type \in EnumeratedSelfAttention
    /\ a.positionwise_layer_type \in EnumeratedPositionwise

KernelTokens(a) == Split(a.conv_kernel_length)

\* C5: given a kernel-length string with at least num_blocks entries,
\* construction fails if and only if one of input_layer,
\* selfattention_layer_type, positionwise_layer_type is not a value the
\* interface enumerates; a failed construction has built no layer; and an
\* unrecognized input_layer is named by the error.
C5_ConfigValidation ==
    (Constructed /\ Len(KernelTokens(args)) >= args.num_blocks) =>
        /\ (self.status # "ok") <=> ~AllEnumerated(args)
        /\ (self.status # "ok") => self.encoders = <<>>
        /\ (args.input_layer \notin EnumeratedInputLayers
              /\ args.input_layer # "vgg2l") =>
                (self.status = "ValueError"
                   /\ args.input_layer \in Range(self.message))

\* C6: for the convolutional attention variants (the other tags valid), a
\* kernel-length string with fewer entries than num_blocks fails
\* construction with an index/configuration error, and one of exactly
\* num_blocks integers builds layer i with the i-th integer as its kernel
\* length.
C6_KernelParsing ==
    (Constructed
       /\ args.selfattention_layer_type \in ConvolutionalSelfAttention
       /\ args.input_layer \in EnumeratedInputLayers
       /\ args.positionwise_layer_type \in EnumeratedPositionwise) =>
        LET toks == KernelTokens(args)
        IN  /\ Len(toks) < args.num_blocks =>
                  self.status \in {"IndexError", "ValueError"}
            /\ (Len(toks) = args.num_blocks
                  /\ \A i \in DOMAIN toks : ParseInt(toks[i]) >= 0) =>
                  /\ self.status = "ok"
                  /\ Len(self.encoders) = args.num_blocks
                  /\ \A i \in DOMAIN self.encoders :
                        self.encoders[i].kernel = ParseInt(toks[i])

LayerProb(i) == self.encoders[i].stochastic_depth_rate

\* a and b differ by no more than two roundings of b
WithinRounding(a, b) ==
    LET d == FNum(a) * FDen(b) - FNum(b) * FDen(a)
        abs == IF d < 0 THEN -d ELSE d
    IN  abs * Pow2(MantBits) <= 3 * FNum(b) * FDen(a)

Returned == call.status = "returned"

NumLayers == Len(self.encoders)

\* the final normalization, applied if normalize_before is set
NormIf(xs) == IF self.normalize_before THEN LayerNorm(xs) ELSE xs

\* the embedded input of the recorded call
Embedded == ForwardEmbed(self, call.xs, call.masks)

\* the activations after only the first k layers, run on the embedded input
FirstLayers(k) == RunLayers(self.encoders, k, Embedded.xs, Embedded.masks).xs

RECURSIVE SortedSeq(_)
SortedSeq(S) ==
    IF S = {} THEN <<>>
    ELSE LET m == CHOOSE x \in S : \A y \in S : x <= y
         IN  <<m>> \o SortedSeq(S \ {m})

RECURSIVE SortList(_)
SortList(l) ==
    IF l = <<>> THEN <<>>
    ELSE LET i == CHOOSE i \in DOMAIN l : \A j \in DOMAIN l : l[i] <= l[j]
         IN  <<l[i]>> \o SortList(SubSeq(l, 1, i - 1) \o SubSeq(l, i + 1, Len(l)))

TapList == self.intermediate_layers.list

\* the configured tap indices that name a layer, each once, in layer order
LayerTaps == SortedSeq({k \in Range(TapList) : 1 <= k /\ k <= NumLayers})

IsTap(k) == ~self.intermediate_layers.isNone /\ k \in Range(TapList)

\* the same encoder with intermediate_layers=None
WithoutTaps == [self EXCEPT !.intermediate_layers = NoTaps]

\* the same encoder with no ctc_softmax
WithoutConditioning == [self EXCEPT !.use_conditioning = FALSE]

\* C2: with conditioning disabled, batch forward with any list of tap
\* indices returns the same final activations and the same final mask as
\* batch forward with intermediate_layers=None, whatever normalize_before.
C2_TapTransparency ==
    (Returned /\ ~self.intermediate_layers.isNone /\ ~self.use_conditioning) =>
        LET plain == forward(WithoutTaps, call.xs, call.masks)
        IN  /\ plain.raised = "ok"
            /\ call.ret.xs = plain.xs
            /\ call.ret.masks = plain.masks
            /\ call.ret.arity = 3
            /\ plain.arity = 2

\* a call on a normalizing three-layer encoder with taps after layers 1 and
\* 2 and no conditioning, on an input that embeds to two frames or more
C2_Witness ==
    /\ Returned
    /\ ~self.use_conditioning
    /\ self.normalize_before
    /\ NumLayers = 3
    /\ ~self.intermediate_layers.isNone
    /\ TapList = <<1, 2>>
    /\ Len(call.ret.intermediate_outputs) = 2
    /\ Len(call.ret.xs) >= 2

\* C8 as stated: the intermediate outputs hold one entry per configured tap
\* index, in layer order, the entry for tap index k being the activations
\* after only the first k layers, normalized if normalize_before.
C8_OneEntryPerIndex ==
    (Returned /\ ~self.intermediate_layers.isNone) =>
        LET inter == call.ret.intermediate_outputs
            order == SortList(TapList)
        IN  /\ Len(inter) = Len(TapList)
            /\ \A j \in DOMAIN inter :
                  /\ order[j] \in 1..NumLayers
                  /\ inter[j] = NormIf(FirstLayers(order[j]))

\* C8, amended: one entry per distinct configured tap index in 1..N, in
\* layer order; the entry for tap k is the (normalized if normalize_before)
\* output of layer k, which without conditioning is the activations after
\* only the first k layers run on the embedded input.
C8_TapContent ==
    (Returned /\ ~self.intermediate_layers.isNone) =>
        LET inter == call.ret.intermediate_outputs
        IN  /\ Len(inter) = Len(LayerTaps)
            /\ \A j \in DOMAIN inter :
                  /\ inter[j] = NormIf(call.ret.layer_out[LayerTaps[j]])
                  /\ ~self.use_conditioning =>
                        inter[j] = NormIf(FirstLayers(LayerTaps[j]))

\* a call whose tap list <<2, 1>> is out of layer order, on a normalizing
\* three-layer encoder without conditioning: two entries, the first of
\* which is not the normalized final output
C8_Witness ==
    /\ Returned
    /\ ~self.use_conditioning
    /\ self.normalize_before
    /\ NumLayers = 3
    /\ ~self.intermediate_layers.isNone
    /\ TapList = <<2, 1>>
    /\ Len(call.ret.intermediate_outputs) = 2
    /\ call.ret.intermediate_outputs[1] # call.ret.intermediate_outputs[2]
    /\ call.ret.intermediate_outputs[2] # call.ret.xs

\* C10: with a conditioning projector configured, each layer is run on the
\* live activations; at a tap the captured copy is the layer output
\* (normalized if normalize_before), it is what is appended to the
\* intermediate outputs, and the live activations become the layer output
\* plus the projection of the auxiliary prediction computed from that copy;
\* at other layers the live activations are the layer output alone; the
\* final activations are the normalization (if set) of the live ones.
C10_ConditioningFeedback ==
    (Returned /\ self.use_conditioning /\ ~self.intermediate_layers.isNone) =>
        LET r == call.ret
            before(k) == IF k = 1 THEN Embedded.xs ELSE r.live[k - 1]
            pos(k) == CHOOSE j \in DOMAIN LayerTaps : LayerTaps[j] = k
        IN  /\ Len(r.live) = NumLayers
            /\ Len(r.layer_out) = NumLayers
            /\ \A k \in 1..NumLayers :
                  /\ r.layer_out[k] =
                        EncoderLayer(self.encoders[k], before(k),
                                     Embedded.masks, NoCache).xs
                  /\ IsTap(k) =>
                        LET copy == NormIf(r.layer_out[k])
                        IN  /\ r.intermediate_outputs[pos(k)] = copy
                            /\ r.live[k] =
                                  TensorAdd(r.layer_out[k],
                                      conditioning_layer(ctc_softmax(copy)))
                  /\ ~IsTap(k) => r.live[k] = r.layer_out[k]
            /\ r.xs = NormIf(IF NumLayers = 0 THEN Embedded.xs
                             ELSE r.live[NumLayers])

\* a conditioned call with a tap after layer 1 of three, whose final
\* activations differ from those of the same encoder without conditioning
\* and whose captured copy differs from the live activations
C10_Witness ==
    /\ Returned
    /\ self.use_conditioning
    /\ NumLayers = 3
    /\ ~self.intermediate_layers.isNone
    /\ TapList = <<1>>
    /\ call.ret.xs # forward(WithoutConditioning, call.xs, call.masks).xs
    /\ call.ret.live[1] # call.ret.layer_out[1]
    /\ call.ret.intermediate_outputs[1] # NormIf(call.ret.live[1])

(***************************************************************************)
(* Properties of forward_one_step (SpecStep, SpecCache).                   *)
(***************************************************************************)
FullMask(xs) == Mask(Len(xs), 0)

\* batch forward over everything stream s has been fed
BatchOver(s) == forward(self, streams[s].fed, FullMask(streams[s].fed))

PlainConv2d ==
    /\ self.embed = "Conv2dSubsampling"
    /\ self.intermediate_layers.isNone
    /\ ~self.use_conditioning

C3_MaskLength ==
    \A s \in Streams :
        (streams[s].calls >= 1 /\ streams[s].given = 0) =>
            /\ streams[s].ret.raised # "TypeError"
            /\ streams[s].ret.mask_given = IsConv(self.embed)
            /\ \A i \in DOMAIN streams[s].ret.stages :
                  streams[s].ret.stages[i][1] = streams[s].ret.stages[i][2]

\* C4: after a forward_one_step call that returned, whether its cache was
\* None, one returned by an earlier call or one supplied by the caller, the
\* returned cache has one entry per layer and every layer has run once, in
\* order.
C4_CacheLength ==
    \A s \in Streams :
        streams[s].status = "ok" =>
            /\ Len(heap[streams[s].cache]) = Len(self.encoders)
            /\ streams[s].ret.layers_run =
                  [i \in 1..Len(self.encoders) |-> i - 1]

\* stream s stepped alone, over its own chunks, on a heap of its own
RECURSIVE SoloRun(_, _, _, _)
SoloRun(obj, chunks, i, st) ==
    IF i > Len(chunks) \/ st.status = "raised" THEN st
    ELSE LET r == forward_one_step(obj, chunks[i], FullMask(chunks[i]),
                                   st.cache, st.hp)
         IN  SoloRun(obj, chunks, i + 1,
                [hp |-> r.heap,
                 cache |-> IF r.raised = "ok" THEN r.new_cache ELSE st.cache,
                 outs |-> IF r.raised = "ok" THEN st.outs \o r.xs ELSE st.outs,
                 status |-> IF r.raised = "ok" THEN "ok" ELSE "raised",
                 xs |-> r.xs, masks |-> r.masks])

Solo(s) ==
    SoloRun(self, streams[s].chunks, 1,
            [hp |-> IF streams[s].supplied THEN <<streams[s].initial>> ELSE <<>>,
             cache |-> IF streams[s].supplied THEN 1 ELSE 0,
             outs |-> <<>>, status |-> "idle", xs |-> <<>>, masks |-> <<>>])

\* every stream has got exactly what it would have got stepped alone
C9_Independent ==
    \A s \in Streams :
        streams[s].calls >= 1 =>
            LET solo == Solo(s)
            IN  /\ streams[s].status = solo.status
                /\ streams[s].outs = solo.outs
                /\ streams[s].ret.xs = solo.xs
                /\ streams[s].ret.masks = solo.masks
                /\ streams[s].status = "ok" =>
                      heap[streams[s].cache] = solo.hp[solo.cache]

\* a step leaves every existing list as it was, hands back a list that did
\* not exist before, and leaves the constructed encoder's fields alone
C9_Frame ==
    /\ Len(heap') >= Len(heap)
    /\ \A id \in DOMAIN heap : heap'[id] = heap[id]
    /\ self.status = "ok" => self' = self
    /\ \A s \in Streams :
          (streams'[s].calls > streams[s].calls
             /\ streams'[s].ret.raised = "ok") =>
                /\ streams'[s].cache \notin DOMAIN heap
                /\ streams'[s].cache \in DOMAIN heap'
                /\ streams'[s].cache # streams[s].cache

\* C9: forward_one_step never changes the cache list it is given and
\* returns a newly created list; neither forward nor forward_one_step
\* changes a field of the encoder; streams stepped in any interleaving get
\* the results they get when stepped alone.
C9_CacheOwnership == [][C9_Frame]_vars /\ []C9_Independent

\* both streams have made two calls that returned, interleaved with a
\* batch call, and hold different caches
C9_Witness ==
    /\ call.status = "returned"
    /\ \A s \in Streams : streams[s].calls = 2 /\ streams[s].status = "ok"
    /\ streams["A"].cache # streams["B"].cache
    /\ Len(heap) = 4

====
